---- MODULE Spec2Model ----
(***************************************************************************)
(* AI Project Manager (S3NTID3V/codemash): the Streamlit render pass of    *)
(* ai_project_manager/app.py, its two task reducers, the watchdog observer *)
(* of repo_monitor.py and the Gemini adapter of gemini_client.py.          *)
(*                                                                         *)
(* One script run ("render pass") is the chain of steps                    *)
(*   monitor -> [stop -> join] -> [start] -> drain -> dashboard -> chat    *)
(* and st.rerun() ends the run and begins the next one at "monitor".       *)
(* The observer thread runs concurrently with the render pass and only     *)
(* puts event records on repo_event_queue.                                 *)
(* config.json only seeds the defaults of the two sidebar inputs, which    *)
(* Init draws; time.time()/strftime stamps are left out of the records.    *)
(***************************************************************************)
EXTENDS Integers, Sequences, FiniteSets, TLC

\* ------------------------------------------------------------------ bounds
MaxInputs == 2       \* chat submissions per session
MaxEvents == 2       \* filesystem events per session
MaxObservers == 2    \* Observer objects created per session
MaxPathEdits == 2    \* edits of the repo path input per session
MaxKeyEdits == 1     \* edits of the API key input per session

None == "None"

\* st.session_state.repo_observer before any observer was stored
NoObserver == 0

\* ----------------------------------------------------------- environment
\* Candidate values of the "Local Repo Path" input and os.path.isdir on them.
Paths == {"", "repoA", "repoB", "nodir"}

isdir(p) == p \in {"repoA", "repoB"}

\* Candidate values of the "Gemini API Key" input and of GEMINI_API_KEY.
ApiKeys == {"", "DUMMY_KEY_FOR_TESTING", "YOUR_GEMINI_API_KEY", "sk-live"}

EnvKeys == {"", "sk-env"}

ObsIds == 1..MaxObservers

VARIABLES
    chat_history,      \* st.session_state.chat_history: <<author, message>> pairs
    tasks,             \* st.session_state.tasks
    logs,              \* st.session_state.logs
    notification,      \* st.session_state.notification
    repo_event_queue,  \* st.session_state.repo_event_queue (queue.Queue)
    repo_observer,     \* st.session_state.repo_observer: an observer id or None
    monitoring_path,   \* st.session_state.monitoring_path (None while unset)
    storage,           \* contents of ai_project_manager/storage.json
    repo_path,         \* value of the sidebar input "Local Repo Path"
    api_key,           \* value of the sidebar input "Gemini API Key"
    env_key,           \* os.getenv("GEMINI_API_KEY")
    user_input,        \* what st.chat_input returns in the current run
    pc,                \* position of the render loop
    observers,         \* per Observer object: its thread state and watched path
    emitted,           \* every event record the observer threads have put
    toasts,            \* the strings st.toast has displayed
    submitted,         \* number of chat submissions so far
    edits,             \* number of edits of each sidebar input so far
    last               \* locals of the current run's handler (reply, branch taken)

vars == <<chat_history, tasks, logs, notification, repo_event_queue, repo_observer,
          monitoring_path, storage, repo_path, api_key, env_key, user_input, pc,
          observers, emitted, toasts, submitted, edits, last>>

session == <<chat_history, tasks, logs, notification, repo_observer, monitoring_path>>

widgets == <<repo_path, api_key, env_key>>

\* ------------------------------------------------- gemini_client.py
\* A constructor without the placeholder check of lines 12-14.
GeminiClient_accepting_placeholder(key) ==
    IF key = "DUMMY_KEY_FOR_TESTING" THEN "mock" ELSE "network"

\* GeminiClient.__init__: the mode of the client built from a non-empty key,
\* None when the constructor raises ValueError.
GeminiClient(key) ==
    IF (key = "" \/ key = "YOUR_GEMINI_API_KEY") /\ key /= "DUMMY_KEY_FOR_TESTING"
    THEN None
    ELSE IF key = "DUMMY_KEY_FOR_TESTING" THEN "mock" ELSE "network"

\* get_gemini_client, with the ValueError caught at app.py line 78 read as None.
get_gemini_client(key, env) ==
    IF key /= "" THEN GeminiClient(key)
    ELSE IF env /= "" THEN GeminiClient(env)
    ELSE None

\* The three prompts app.py builds, by the marker text each contains.
GenPrompt == "generate the next logical task"

VerPrompt == "A task was marked as completed"

ChatPrompt == "User query"

\* A backend reply: the kind of text it is, the keys of the JSON object it
\* holds, the JSON value under "verified" and whether it is wrapped in a
\* ```json fence.  verified: true, false, a non-empty string ("str", truthy in
\* Python), 0/null ("zero", falsy), or absent.
Reply(json, keys, verified, fence) ==
    [json |-> json, keys |-> keys, verified |-> verified, fence |-> fence]

NoReply == Reply("none", {}, "absent", FALSE)

GenericText == Reply("generic_text", {}, "absent", FALSE)

ErrorText == Reply("error_text", {}, "absent", FALSE)

TaskKeys == {"task_description", "coding_prompt"}

\* GeminiClient._get_mock_response
get_mock_response(prompt) ==
    IF prompt = GenPrompt THEN Reply("object", TaskKeys, "absent", FALSE)
    ELSE IF prompt = VerPrompt THEN Reply("object", {"verified", "feedback"}, "true", FALSE)
    ELSE GenericText

\* What response.text of the real backend is tried to be, per prompt: text that
\* is no JSON, a JSON array, and JSON objects with and without the expected
\* keys, one of them inside a ```json fence.
ModelTexts(prompt) ==
    IF prompt = GenPrompt
    THEN {Reply("array", {}, "absent", FALSE),
          Reply("object", {}, "absent", FALSE),
          Reply("object", {"task_description"}, "absent", FALSE),
          Reply("object", TaskKeys, "absent", FALSE),
          Reply("object", TaskKeys, "absent", TRUE)}
    ELSE IF prompt = VerPrompt
    THEN {Reply("array", {}, "absent", FALSE),
          Reply("object", {"feedback"}, "absent", FALSE),
          Reply("object", {"verified"}, "true", FALSE),
          Reply("object", {"verified", "feedback"}, "true", FALSE),
          Reply("object", {"verified", "feedback"}, "false", FALSE),
          Reply("object", {"verified", "feedback"}, "str", FALSE)}
    ELSE {GenericText}

\* An exception raised by the backend call (transport error, blocked prompt,
\* response without text): not a string.
BackendError == Reply("exception", {}, "absent", FALSE)

\* self.model.generate_content(prompt) followed by response.text: a text, or
\* an exception.
generate_content(prompt) == ModelTexts(prompt) \cup {BackendError}

\* The backend call without the try/except around it.
response_text_uncaught(outcome) == outcome

\* Lines 27-31: the text of the response, an exception turned into the
\* error-description string.
response_text(outcome) == IF outcome = BackendError THEN ErrorText ELSE outcome

\* GeminiClient.generate_response: the set of strings it can return.
generate_response(client, prompt) ==
    IF client = "mock" THEN {get_mock_response(prompt)}
    ELSE {response_text(outcome) : outcome \in generate_content(prompt)}

\* ------------------------------------------------- parsing a reply
\* ai_response.strip().replace('```json', '').replace('```', '')
Clean(reply) == [reply EXCEPT !.fence = FALSE]

\* json.loads: "JSONDecodeError", or the kind of value decoded.
json_loads(s) ==
    IF s.fence \/ s.json \in {"generic_text", "error_text"} THEN "JSONDecodeError"
    ELSE s.json

\* Python truthiness of verification_data.get('verified')
Truthy(reply) == "verified" \in reply.keys /\ reply.verified \in {"true", "str"}

\* ------------------------------------------------- app.py helpers
\* log_event: the entry appended to st.session_state.logs
log_entry(event_type, details) == [event |-> event_type, details |-> details]

\* save_project_data: what save_json writes to storage.json
storage_data(ts, ls) == [tasks |-> ts, logs |-> ls]

\* current_task taking the first task whatever its status.
current_task_any_status(ts) == IF Len(ts) > 0 THEN 1 ELSE 0

\* next((task for task in tasks if task['status'] == 'pending'), None), as the
\* index of that task, 0 for None.
current_task(ts) ==
    IF \E i \in 1..Len(ts) : ts[i].status = "pending"
    THEN CHOOSE i \in 1..Len(ts) :
            /\ ts[i].status = "pending"
            /\ \A j \in 1..(i - 1) : ts[j].status /= "pending"
    ELSE 0

\* st.session_state.notification = None; a notification is a tuple of the
\* parts of its text.
NoNotification == <<>>

NoLast == [op |-> "none", reply |-> NoReply, raised |-> "none"]

Last(op, reply, raised) == [op |-> op, reply |-> reply, raised |-> raised]

\* new_task numbering from the count itself (len(tasks) without the + 1).
new_task_zero_based(ts) ==
    [id |-> Len(ts), description |-> "task_description", prompt |-> "coding_prompt",
     status |-> "pending"]

\* Lines 206-212: the task built from a parsed reply.
new_task(ts) ==
    [id |-> Len(ts) + 1, description |-> "task_description", prompt |-> "coding_prompt",
     status |-> "pending"]

\* storage.json as load_json reads it at line 45: missing or empty, or left by
\* an earlier session that generated one task and, in the third, verified it.
EmptyStore == storage_data(<<>>, <<>>)

TaskGenerated(t) == log_entry("Task Generated", [task_id |-> t.id, description |-> t.description])

TaskVerified(t, summary) == log_entry("Task Verified", [task_id |-> t.id, summary |-> summary])

StoredPending == storage_data(<<new_task(<<>>)>>, <<TaskGenerated(new_task(<<>>))>>)

StoredVerified ==
    storage_data(<<[new_task(<<>>) EXCEPT !.status = "verified"]>>,
                 <<TaskGenerated(new_task(<<>>)),
                   TaskVerified(new_task(<<>>), <<"added login form">>)>>)

Stores == {EmptyStore, StoredPending, StoredVerified}

\* ------------------------------------------------- initial state
\* A fresh session over an empty storage.json: lines 44-58 and 83-84 of main(),
\* with the sidebar inputs seeded from config.json (lines 63-64) and the
\* environment's GEMINI_API_KEY.
InitSession(paths, keys, envs, stores, start) ==
    /\ chat_history = <<>>
    /\ storage \in stores
    /\ tasks = storage.tasks
    /\ logs = storage.logs
    /\ notification = NoNotification
    /\ repo_event_queue = <<>>
    /\ repo_observer = NoObserver
    /\ monitoring_path = None
    /\ repo_path \in paths
    /\ api_key \in keys
    /\ env_key \in envs
    /\ user_input = <<>>
    /\ pc = start
    /\ observers = [o \in ObsIds |-> [state |-> "new", path |-> None]]
    /\ emitted = <<>>
    /\ toasts = <<>>
    /\ submitted = 0
    /\ edits = [path |-> 0, key |-> 0]
    /\ last = NoLast

\* First run of an installation without config.json: load_json returns {} and
\* both inputs start empty (lines 17-20, 63-64).
Init == InitSession({""}, {""}, {""}, {EmptyStore}, "monitor")

\* ------------------------------------------------- repo_monitor.py
is_alive(o) == o /= NoObserver /\ observers[o].state \in {"alive", "stopping"}

EventTypes == {"modified"}

\* Queue.put: the queue with the item added at its tail.
put(queue, item) == Append(queue, item)

\* Reading the head of the queue without removing it.
get_without_removing(queue) == [item |-> Head(queue), rest |-> queue]

\* Queue.get on a non-empty queue: the head, and the queue left.
get(queue) == [item |-> Head(queue), rest |-> Tail(queue)]

\* A handler that, besides the put, sets the notification from its own thread.
on_any_event_notifying(o) ==
    /\ is_alive(o)
    /\ Len(emitted) < MaxEvents
    /\ \E t \in EventTypes :
        LET event_data == [event_type |-> t, src_path |-> observers[o].path,
                           is_directory |-> FALSE, timestamp |-> Len(emitted) + 1]
        IN /\ repo_event_queue' = put(repo_event_queue, event_data)
           /\ emitted' = Append(emitted, [event |-> event_data, observer |-> o])
           /\ notification' = <<"Repo change", t, observers[o].path>>
    /\ UNCHANGED <<chat_history, tasks, logs, repo_observer, monitoring_path,
                   storage, widgets, user_input, pc, observers, toasts,
                   submitted, edits, last>>

\* RepoChangeHandler.on_any_event, run on observer o's thread: one put.
on_any_event(o) ==
    /\ is_alive(o)
    /\ Len(emitted) < MaxEvents
    /\ \E t \in EventTypes :
        LET event_data == [event_type |-> t, src_path |-> observers[o].path,
                           is_directory |-> FALSE, timestamp |-> Len(emitted) + 1]
        IN /\ repo_event_queue' = put(repo_event_queue, event_data)
           /\ emitted' = Append(emitted, [event |-> event_data, observer |-> o])
    /\ UNCHANGED <<session, storage, widgets, user_input, pc, observers, toasts,
                   submitted, edits, last>>

\* The observer thread leaves its run loop once observer.stop() has set its
\* stop event.
ObserverExit(o) ==
    /\ observers[o].state = "stopping"
    /\ observers' = [observers EXCEPT ![o].state = "dead"]
    /\ UNCHANGED <<session, storage, widgets, user_input, pc, repo_event_queue,
                   emitted, toasts, submitted, edits, last>>

\* stop_monitoring(observer), lines 61-62: the test and observer.stop(), which
\* sets the thread's stop event; ret is where the caller goes on.
stop_monitoring(observer, ret) ==
    /\ pc = "stop"
    /\ IF observer /= NoObserver /\ is_alive(observer)
       THEN /\ observers' = [observers EXCEPT ![observer].state = "stopping"]
            /\ pc' = "join"
       ELSE /\ pc' = ret
            /\ UNCHANGED observers
    /\ UNCHANGED <<session, storage, widgets, user_input, repo_event_queue,
                   emitted, toasts, submitted, edits, last>>

\* observer.join() returning at once, whether or not the thread has exited.
join_without_waiting(observer, ret) ==
    /\ pc = "join"
    /\ pc' = ret
    /\ UNCHANGED <<session, storage, widgets, user_input, repo_event_queue,
                   observers, emitted, toasts, submitted, edits, last>>

\* stop_monitoring(observer), line 63: observer.join() returns once the thread
\* has exited.
join(observer, ret) ==
    /\ pc = "join"
    /\ ~is_alive(observer)
    /\ pc' = ret
    /\ UNCHANGED <<session, storage, widgets, user_input, repo_event_queue,
                   observers, emitted, toasts, submitted, edits, last>>

\* Line 91: the render pass stops the session's observer and goes on to line 93.
StopPrevious == stop_monitoring(repo_observer, "start")

JoinPrevious == join(repo_observer, "start")

\* The Observer objects not created yet.
Fresh == {o \in ObsIds : observers[o].state = "new"}

\* Observer(): the next object.
NewObserver == CHOOSE x \in Fresh : \A y \in Fresh : x <= y

\* start_monitoring (lines 48-52) returning: the new observer's thread runs and
\* watches path.
start_monitoring(path) ==
    [observers EXCEPT ![NewObserver] = [state |-> "alive", path |-> path]]

\* ------------------------------------------------- app.py main(): monitoring
\* The monitoring setup without line 91: a changed path goes straight to
\* start_monitoring, the previous observer left running.
MonitorSetup_without_stop ==
    /\ pc = "monitor"
    /\ last' = NoLast
    /\ IF repo_path /= "" /\ isdir(repo_path) /\ monitoring_path /= repo_path
       THEN pc' = "start"
       ELSE pc' = "drain"
    /\ UNCHANGED <<session, storage, widgets, user_input, repo_event_queue,
                   observers, emitted, toasts, submitted, edits>>

\* Lines 83-92 and 101-102: whether a watcher has to be (re)started.  A new
\* script run starts here, with fresh locals.
MonitorSetup ==
    /\ pc = "monitor"
    /\ last' = NoLast
    /\ IF repo_path /= "" /\ isdir(repo_path) /\ monitoring_path /= repo_path
       THEN pc' = IF repo_observer /= NoObserver THEN "stop" ELSE "start"
       ELSE pc' = "drain"
    /\ UNCHANGED <<session, storage, widgets, user_input, repo_event_queue,
                   observers, emitted, toasts, submitted, edits>>

\* Lines 93-98 with start_monitoring succeeding.
StartMonitoringOk ==
    /\ pc = "start"
    /\ Fresh /= {}
    /\ observers' = start_monitoring(repo_path)
    /\ repo_observer' = NewObserver
    /\ monitoring_path' = repo_path
    /\ logs' = Append(logs, log_entry("Repo Monitoring Started", [path |-> repo_path]))
    /\ pc' = "drain"
    /\ UNCHANGED <<chat_history, tasks, notification, storage, widgets, user_input,
                   repo_event_queue, emitted, toasts, submitted, edits, last>>

\* Lines 93-100 with start_monitoring raising (observer.schedule or
\* observer.start fails): the except branch only reports the error.
StartMonitoringFails ==
    /\ pc = "start"
    /\ pc' = "drain"
    /\ UNCHANGED <<session, storage, widgets, user_input, repo_event_queue,
                   observers, emitted, toasts, submitted, edits, last>>

\* ------------------------------------------------- app.py main(): drain
\* Lines 107-111: one iteration of the while loop; st.rerun() ends the run and
\* the next run's chat_input returns nothing.
DrainEvent ==
    /\ pc = "drain"
    /\ repo_event_queue /= <<>>
    /\ LET event == get(repo_event_queue).item
       IN /\ repo_event_queue' = get(repo_event_queue).rest
          /\ logs' = Append(logs, log_entry("Repo Change Detected", event))
          /\ notification' = <<"Repo change", event.event_type, event.src_path>>
    /\ user_input' = <<>>
    /\ pc' = "monitor"
    /\ UNCHANGED <<chat_history, tasks, repo_observer, monitoring_path, storage,
                   widgets, observers, emitted, toasts, submitted, edits, last>>

\* The pass going on to the dashboard without testing the queue.
DrainEmpty_unchecked ==
    /\ pc = "drain"
    /\ pc' = "dashboard"
    /\ UNCHANGED <<session, storage, widgets, user_input, repo_event_queue,
                   observers, emitted, toasts, submitted, edits, last>>

\* Line 107 finding the queue empty.
DrainEmpty ==
    /\ pc = "drain"
    /\ repo_event_queue = <<>>
    /\ pc' = "dashboard"
    /\ UNCHANGED <<session, storage, widgets, user_input, repo_event_queue,
                   observers, emitted, toasts, submitted, edits, last>>

\* Lines 115-155: the dashboard reads the tasks; lines 141-143 show the
\* notification as a toast and clear it.
Dashboard ==
    /\ pc = "dashboard"
    /\ IF notification /= NoNotification
       THEN /\ toasts' = Append(toasts, notification)
            /\ notification' = NoNotification
       ELSE UNCHANGED <<toasts, notification>>
    /\ pc' = "chat"
    /\ UNCHANGED <<chat_history, tasks, logs, repo_observer, monitoring_path,
                   storage, widgets, user_input, repo_event_queue, observers,
                   emitted, submitted, edits, last>>

\* ------------------------------------------------- app.py main(): chat
\* The chat inputs tried, as the sequence of their words.
UserInputs ==
    {<<"What's next", "?">>, <<"done">>, <<"Done", "added login form">>,
     <<"Done", "what's next">>, <<"hello">>}

\* str.lower on a word
lower(w) ==
    CASE w = "What's next" -> "what's next"
      [] w = "Done" -> "done"
      [] OTHER -> w

\* The substring test without lower-casing the input first.
HasWhatsNext_case_sensitive(input) == \E i \in 1..Len(input) : input[i] = "what's next"

\* "what's next" in user_input.lower()
HasWhatsNext(input) == \E i \in 1..Len(input) : lower(input[i]) = "what's next"

\* user_input.lower().startswith("done")
StartsWithDone(input) == Len(input) > 0 /\ lower(input[1]) = "done"

\* user_input.replace("done", "").strip(), with the default of lines 244-245
user_summary(input) ==
    LET kept == SelectSeq(input, LAMBDA w : w /= "done")
    IN IF kept = <<>>
       THEN <<"User marked task as done without providing a summary.">>
       ELSE kept

\* One entry of chat_history: the author, the fixed part of the text and what
\* is formatted into it (the user's words, the raw reply, the exception).
Msg(author, text, input, reply, err) ==
    [author |-> author, text |-> text, input |-> input, reply |-> reply, err |-> err]

UserMsg(input) == Msg("user", "", input, NoReply, "none")

AssistantMsg(text, reply, err) == Msg("assistant", text, <<>>, reply, err)

\* The client of the current run (lines 75-79).
gemini_client == get_gemini_client(api_key, env_key)

\* Line 158 returning nothing: the run ends after drawing the page.
ChatNoInput ==
    /\ pc = "chat"
    /\ user_input = <<>>
    /\ pc' = "idle"
    /\ UNCHANGED <<session, storage, widgets, user_input, repo_event_queue,
                   observers, emitted, toasts, submitted, edits, last>>

\* Lines 160-164 and 178-182: no client.
ChatNotConfigured ==
    /\ pc = "chat"
    /\ user_input /= <<>>
    /\ gemini_client = None
    /\ chat_history' = chat_history \o
            <<UserMsg(user_input),
              AssistantMsg("AI is not configured. Please enter your API key in the sidebar.",
                           NoReply, "none")>>
    /\ last' = Last("not_configured", NoReply, "none")
    /\ pc' = "idle"
    /\ user_input' = <<>>
    /\ UNCHANGED <<tasks, logs, notification, repo_observer, monitoring_path, storage,
                   widgets, repo_event_queue, observers, emitted, toasts, submitted, edits>>

\* Lines 160-164 and 171-177: the generic reply.
ChatGeneric ==
    /\ pc = "chat"
    /\ user_input /= <<>>
    /\ gemini_client /= None
    /\ ~HasWhatsNext(user_input)
    /\ ~StartsWithDone(user_input)
    /\ \E ai_response \in generate_response(gemini_client, ChatPrompt) :
        /\ chat_history' = chat_history \o
                <<UserMsg(user_input), AssistantMsg("", ai_response, "none")>>
        /\ last' = Last("generic", ai_response, "none")
    /\ pc' = "idle"
    /\ user_input' = <<>>
    /\ UNCHANGED <<tasks, logs, notification, repo_observer, monitoring_path, storage,
                   widgets, repo_event_queue, observers, emitted, toasts, submitted, edits>>

\* ------------------------------------------------- app.py handlers
\* handle_task_generation (lines 186-229), entered from line 168 after the
\* user's message was appended at line 161.
handle_task_generation ==
    /\ pc = "chat"
    /\ user_input /= <<>>
    /\ gemini_client /= None
    /\ HasWhatsNext(user_input)
    /\ \E ai_response \in generate_response(gemini_client, GenPrompt) :
        LET hist == Append(chat_history, UserMsg(user_input))
            task_data == json_loads(Clean(ai_response))
        IN
        IF task_data = "JSONDecodeError"
        THEN \* line 204 raises, caught at 224
             /\ chat_history' = Append(hist,
                    AssistantMsg("Failed to parse AI response for task generation",
                                 ai_response, "JSONDecodeError"))
             /\ last' = Last("generate_error", ai_response, "JSONDecodeError")
             /\ pc' = "idle"
             /\ UNCHANGED <<tasks, logs, storage, notification>>
        ELSE IF task_data /= "object"
        THEN \* line 208 subscripts a list with a string: TypeError, not caught
             /\ chat_history' = hist
             /\ last' = Last("generate_raised", ai_response, "TypeError")
             /\ pc' = "idle"
             /\ UNCHANGED <<tasks, logs, storage, notification>>
        ELSE IF ~(TaskKeys \subseteq ai_response.keys)
        THEN \* line 208 or 209 raises KeyError, caught at 224
             /\ chat_history' = Append(hist,
                    AssistantMsg("Failed to parse AI response for task generation",
                                 ai_response, "KeyError"))
             /\ last' = Last("generate_error", ai_response, "KeyError")
             /\ pc' = "idle"
             /\ UNCHANGED <<tasks, logs, storage, notification>>
        ELSE \* lines 206-222
             LET t == new_task(tasks)
                 ls == Append(logs, TaskGenerated(t))
             IN /\ tasks' = Append(tasks, t)
                /\ logs' = ls
                /\ storage' = storage_data(Append(tasks, t), ls)
                /\ chat_history' = Append(hist,
                        AssistantMsg("New Task Generated", ai_response, "none"))
                /\ notification' = <<"New task generated!">>
                /\ last' = Last("generate_ok", ai_response, "Rerun")
                /\ pc' = "monitor"
    /\ user_input' = <<>>
    /\ UNCHANGED <<repo_observer, monitoring_path, widgets, repo_event_queue,
                   observers, emitted, toasts, submitted, edits>>

\* Taking the verified task out of the list.
mark_verified_removing(ts, i) == SubSeq(ts, 1, i - 1) \o SubSeq(ts, i + 1, Len(ts))

\* Line 265: current_task['status'] = 'verified', on the task object in the list.
mark_verified(ts, i) == [ts EXCEPT ![i].status = "verified"]

\* handle_task_verification (lines 231-284), entered from line 170.
handle_task_verification ==
    /\ pc = "chat"
    /\ user_input /= <<>>
    /\ gemini_client /= None
    /\ ~HasWhatsNext(user_input)
    /\ StartsWithDone(user_input)
    /\ LET hist == Append(chat_history, UserMsg(user_input))
           i == current_task(tasks)
           summary == user_summary(user_input)
       IN
       IF i = 0
       THEN \* lines 237-241
            /\ chat_history' = Append(hist,
                    AssistantMsg("There are no pending tasks to verify.", NoReply, "none"))
            /\ last' = Last("verify_nothing", NoReply, "none")
            /\ pc' = "idle"
            /\ UNCHANGED <<tasks, logs, storage, notification>>
       ELSE
       \E ai_response \in generate_response(gemini_client, VerPrompt) :
        LET verification_data == json_loads(Clean(ai_response))
        IN
        IF verification_data = "JSONDecodeError"
        THEN \* line 262 raises, caught at 280
             /\ chat_history' = Append(hist,
                    AssistantMsg("Failed to parse AI verification response",
                                 ai_response, "JSONDecodeError"))
             /\ last' = Last("verify_error", ai_response, "JSONDecodeError")
             /\ pc' = "idle"
             /\ UNCHANGED <<tasks, logs, storage, notification>>
        ELSE IF verification_data /= "object"
        THEN \* line 264 calls .get on a list: AttributeError, not caught
             /\ chat_history' = hist
             /\ last' = Last("verify_raised", ai_response, "AttributeError")
             /\ pc' = "idle"
             /\ UNCHANGED <<tasks, logs, storage, notification>>
        ELSE IF Truthy(ai_response)
        THEN \* lines 265-270
             LET ts == mark_verified(tasks, i)
                 ls == Append(logs, TaskVerified(tasks[i], summary))
             IN /\ tasks' = ts
                /\ logs' = ls
                /\ storage' = storage_data(ts, ls)
                /\ notification' = <<"Task verified!", tasks[i].description>>
                /\ IF "feedback" \in ai_response.keys
                   THEN /\ chat_history' = Append(hist,
                                AssistantMsg("Great job! Task verified", ai_response, "none"))
                        /\ last' = Last("verify_ok", ai_response, "Rerun")
                        /\ pc' = "monitor"
                   ELSE \* line 269 raises KeyError('feedback'), caught at 280
                        /\ chat_history' = Append(hist,
                                AssistantMsg("Failed to parse AI verification response",
                                             ai_response, "KeyError"))
                        /\ last' = Last("verify_error", ai_response, "KeyError")
                        /\ pc' = "idle"
        ELSE \* lines 272-278
             LET feedback == IF "feedback" \in ai_response.keys
                             THEN "feedback" ELSE "No specific feedback provided."
                 ls == Append(logs, log_entry("Verification Failed",
                                 [task_id |-> tasks[i].id, summary |-> summary,
                                  feedback |-> feedback]))
             IN /\ logs' = ls
                /\ storage' = storage_data(tasks, ls)
                /\ chat_history' = Append(hist,
                        AssistantMsg("Verification Failed", ai_response, "none"))
                /\ last' = Last("verify_failed", ai_response, "none")
                /\ pc' = "idle"
                /\ UNCHANGED <<tasks, notification>>
    /\ user_input' = <<>>
    /\ UNCHANGED <<repo_observer, monitoring_path, widgets, repo_event_queue,
                   observers, emitted, toasts, submitted, edits>>

\* ------------------------------------------------- the user
\* A chat submission triggers a run in which st.chat_input returns the text.
SubmitChat ==
    /\ pc = "idle"
    /\ submitted < MaxInputs
    /\ \E input \in UserInputs : user_input' = input
    /\ submitted' = submitted + 1
    /\ pc' = "monitor"
    /\ UNCHANGED <<session, storage, widgets, repo_event_queue, observers, emitted,
                   toasts, edits, last>>

\* Editing the "Local Repo Path" input triggers a run.
EditRepoPath ==
    /\ pc = "idle"
    /\ edits.path < MaxPathEdits
    /\ \E p \in Paths \ {repo_path} : repo_path' = p
    /\ edits' = [edits EXCEPT !.path = @ + 1]
    /\ pc' = "monitor"
    /\ UNCHANGED <<session, storage, api_key, env_key, user_input, repo_event_queue,
                   observers, emitted, toasts, submitted, last>>

\* Editing the "Gemini API Key" input triggers a run.
EditApiKey ==
    /\ pc = "idle"
    /\ edits.key < MaxKeyEdits
    /\ \E k \in ApiKeys \ {api_key} : api_key' = k
    /\ edits' = [edits EXCEPT !.key = @ + 1]
    /\ pc' = "monitor"
    /\ UNCHANGED <<session, storage, repo_path, env_key, user_input, repo_event_queue,
                   observers, emitted, toasts, submitted, last>>

\* "Save Configuration" (lines 66-71): config.json is written and st.rerun()
\* starts the next run.
SaveConfiguration ==
    /\ pc = "idle"
    /\ pc' = "monitor"
    /\ UNCHANGED <<session, storage, widgets, user_input, repo_event_queue, observers,
                   emitted, toasts, submitted, edits, last>>

\* ------------------------------------------------- specification
Next ==
    \/ SubmitChat
    \/ EditRepoPath
    \/ EditApiKey
    \/ SaveConfiguration
    \/ MonitorSetup
    \/ StopPrevious
    \/ JoinPrevious
    \/ StartMonitoringOk
    \/ StartMonitoringFails
    \/ DrainEvent
    \/ DrainEmpty
    \/ Dashboard
    \/ ChatNoInput
    \/ ChatNotConfigured
    \/ ChatGeneric
    \/ handle_task_generation
    \/ handle_task_verification
    \/ \E o \in ObsIds : on_any_event(o)
    \/ \E o \in ObsIds : ObserverExit(o)

Spec == Init /\ [][Next]_vars

\* The chat side alone: a session, possibly over a storage.json an earlier
\* session left, whose sidebar inputs keep their configured values; the repo
\* path is empty, so no watcher is started and the queue stays empty.
InitChat == InitSession({""}, ApiKeys, EnvKeys, Stores, "monitor")

NextChat ==
    \/ SubmitChat
    \/ SaveConfiguration
    \/ MonitorSetup
    \/ DrainEmpty
    \/ Dashboard
    \/ ChatNoInput
    \/ ChatNotConfigured
    \/ ChatGeneric
    \/ handle_task_generation
    \/ handle_task_verification

SpecChat == InitChat /\ [][NextChat]_vars

\* The watcher side alone: a session in which nothing is typed into the chat.
InitWatch == InitSession(Paths, {""}, {""}, {EmptyStore}, "monitor")

NextWatch ==
    \/ EditRepoPath
    \/ SaveConfiguration
    \/ MonitorSetup
    \/ StopPrevious
    \/ JoinPrevious
    \/ StartMonitoringOk
    \/ StartMonitoringFails
    \/ DrainEvent
    \/ DrainEmpty
    \/ Dashboard
    \/ ChatNoInput
    \/ \E o \in ObsIds : on_any_event(o)
    \/ \E o \in ObsIds : ObserverExit(o)

SpecWatch == InitWatch /\ [][NextWatch]_vars

\* A script run, once started, is executed to its end by Streamlit's script
\* runner, and an observer thread whose stop event is set leaves its loop.
PassStep ==
    \/ MonitorSetup
    \/ StopPrevious
    \/ JoinPrevious
    \/ StartMonitoringOk
    \/ StartMonitoringFails
    \/ DrainEvent
    \/ DrainEmpty
    \/ Dashboard
    \/ ChatNoInput

SpecWatchFair ==
    /\ SpecWatch
    /\ WF_vars(PassStep)
    /\ \A o \in ObsIds : WF_vars(ObserverExit(o))

\* repo_monitor.py on its own: a caller that starts observers with
\* start_monitoring and calls stop_monitoring with any handle it holds, or with
\* None, in any order; repo_observer is the argument of the call under way.
InitStop == InitSession({""}, {""}, {""}, {EmptyStore}, "idle")

CallerStarts ==
    /\ pc = "idle"
    /\ Fresh /= {}
    /\ \E path \in {p \in Paths : isdir(p)} : observers' = start_monitoring(path)
    /\ UNCHANGED <<session, storage, widgets, user_input, pc, repo_event_queue,
                   emitted, toasts, submitted, edits, last>>

CallerStops ==
    /\ pc = "idle"
    /\ \E observer \in {NoObserver} \cup (ObsIds \ Fresh) : repo_observer' = observer
    /\ pc' = "stop"
    /\ UNCHANGED <<chat_history, tasks, logs, notification, monitoring_path, storage,
                   widgets, user_input, repo_event_queue, observers, emitted, toasts,
                   submitted, edits, last>>

NextStop ==
    \/ CallerStarts
    \/ CallerStops
    \/ stop_monitoring(repo_observer, "idle")
    \/ join(repo_observer, "idle")
    \/ \E o \in ObsIds : on_any_event(o)
    \/ \E o \in ObsIds : ObserverExit(o)

SpecStop == InitStop /\ [][NextStop]_vars

\* ------------------------------------------------- properties
\* Indices of the tasks with status 'pending'.
Pending(ts) == {i \in 1..Len(ts) : ts[i].status = "pending"}

GenerateOps == {"generate_ok", "generate_error", "generate_raised"}

VerifyOps == {"verify_nothing", "verify_ok", "verify_failed", "verify_error", "verify_raised"}

\* The step of the render pass that runs handle_task_generation.
GenerateStep == pc = "chat" /\ last'.op \in GenerateOps

\* The step of the render pass that runs handle_task_verification.
VerifyStep == pc = "chat" /\ last'.op \in VerifyOps

\* The reply is a JSON object (fenced or not) holding both task keys.
IsTaskObject(reply) == reply.json = "object" /\ TaskKeys \subseteq reply.keys

\* C1: in every reachable state at most one task has status 'pending'.
C1_AtMostOnePending == Cardinality(Pending(tasks)) <= 1

\* C2: a "What's next?" submitted while a task is pending creates no task: the
\* task list is unchanged by generate-next-task.
C2_NoNewTaskWhilePending ==
    [][(GenerateStep /\ Pending(tasks) /= {}) => tasks' = tasks]_vars

\* C3: a generate-next-task call whose reply parses to an object with
\* task_description and coding_prompt appends exactly one task, pending, with
\* id = count before + 1, and changes no existing task; the ids in the task
\* list are strictly increasing in insertion order.
C3_GenerateAppendsOne ==
    /\ [][(GenerateStep /\ IsTaskObject(last'.reply)) =>
            /\ Len(tasks') = Len(tasks) + 1
            /\ SubSeq(tasks', 1, Len(tasks)) = tasks
            /\ tasks'[Len(tasks')].status = "pending"
            /\ tasks'[Len(tasks')].id = Len(tasks) + 1]_vars
    /\ [](\A i, j \in 1..Len(tasks) : i < j => tasks[i].id < tasks[j].id)

\* C3 witness: a second task was just generated from a fenced reply.
C3_Witness ==
    /\ last.op = "generate_ok"
    /\ last.reply.fence
    /\ Len(tasks) >= 2
    /\ tasks[Len(tasks)].id = Len(tasks)

\* C4: verify-completion with no pending task leaves tasks, logs and storage
\* unchanged, calls no backend and appends exactly the fixed message.
C4_VerifyNothingPending ==
    [][(VerifyStep /\ Pending(tasks) = {}) =>
        /\ tasks' = tasks
        /\ logs' = logs
        /\ storage' = storage
        /\ last'.reply = NoReply
        /\ chat_history' = chat_history \o
                <<UserMsg(user_input),
                  AssistantMsg("There are no pending tasks to verify.", NoReply, "none")>>]_vars

\* C4 witness: "done" was answered with the fixed message over a task list
\* that holds a task, none of them pending.
C4_Witness ==
    /\ last.op = "verify_nothing"
    /\ Len(tasks) > 0
    /\ Pending(tasks) = {}

\* The first pending task in insertion order (only used where one exists).
FirstPending(ts) == CHOOSE i \in Pending(ts) : \A j \in Pending(ts) : i <= j

\* The reply is a JSON object whose 'verified' is the JSON value true.
VerifiedIsTrue(reply) ==
    reply.json = "object" /\ "verified" \in reply.keys /\ reply.verified = "true"

\* The reply is a JSON object whose 'verified' is the JSON value false.
VerifiedIsFalse(reply) ==
    reply.json = "object" /\ "verified" \in reply.keys /\ reply.verified = "false"

\* C5: verify-completion with a pending task flips it to 'verified' iff the
\* reply is a JSON object whose 'verified' is true; on 'verified' false the
\* task stays pending and a 'Verification Failed' entry is logged and
\* persisted; only the first pending task can change.
C5_VerifiedIffTrue ==
    [][(VerifyStep /\ Pending(tasks) /= {}) =>
        LET i == FirstPending(tasks)
        IN /\ (tasks'[i].status = "verified") <=> VerifiedIsTrue(last'.reply)
           /\ VerifiedIsFalse(last'.reply) =>
                /\ tasks' = tasks
                /\ Len(logs') = Len(logs) + 1
                /\ logs'[Len(logs')].event = "Verification Failed"
                /\ storage' = storage_data(tasks', logs')
           /\ Len(tasks') = Len(tasks)
           /\ \A j \in 1..Len(tasks) : j /= i => tasks'[j] = tasks[j]
           /\ tasks'[i] = tasks[i] \/ tasks'[i] = [tasks[i] EXCEPT !.status = "verified"]]_vars

\* The reply is a JSON object holding both 'verified' and 'feedback'.
IsVerificationObject(reply) ==
    reply.json = "object" /\ {"verified", "feedback"} \subseteq reply.keys

\* C6: in verify-completion a reply that is malformed JSON or JSON without
\* 'verified' or 'feedback' leaves tasks, logs and storage as they were; the
\* only effect is a chat message with the raw text and the parse error.
C6_VerifyMalformedUntouched ==
    [][(VerifyStep /\ Pending(tasks) /= {} /\ ~IsVerificationObject(last'.reply)) =>
        /\ tasks' = tasks
        /\ logs' = logs
        /\ storage' = storage
        /\ notification' = notification
        /\ \E err \in {"JSONDecodeError", "KeyError"} :
            chat_history' = chat_history \o
                <<UserMsg(user_input),
                  AssistantMsg("Failed to parse AI verification response",
                               last'.reply, err)>>]_vars

\* C7: in generate-next-task a reply that is malformed JSON or lacks
\* task_description or coding_prompt does not mutate the store, sets no
\* notification, does not raise, and is surfaced as a chat message with the
\* raw text and the parse error.
C7_GenerateMalformedUntouched ==
    [][(GenerateStep /\ ~IsTaskObject(last'.reply)) =>
        /\ tasks' = tasks
        /\ logs' = logs
        /\ storage' = storage
        /\ notification' = notification
        /\ last'.raised \in {"JSONDecodeError", "KeyError"}
        /\ chat_history' = chat_history \o
                <<UserMsg(user_input),
                  AssistantMsg("Failed to parse AI response for task generation",
                               last'.reply, last'.raised)>>]_vars

\* ------------------------------------------------- watcher properties
\* The event records of the 'Repo Change Detected' log entries, in log order.
ChangesLogged(ls) ==
    LET sel == SelectSeq(ls, LAMBDA e : e.event = "Repo Change Detected")
    IN [i \in 1..Len(sel) |-> sel[i].details]

\* The event records the observer threads have put, in put order.
Enqueued == [i \in 1..Len(emitted) |-> emitted[i].event]

\* The observers whose thread is alive.
Alive == {o \in ObsIds : is_alive(o)}

\* The events observer o has put so far.
EventsOf(o, es) == SelectSeq(es, LAMBDA e : e.observer = o)

\* C8: every enqueued event yields exactly one 'Repo Change Detected' entry,
\* in enqueue order (the entries logged followed by the events still queued are
\* the events put), and a drain over an empty queue appends no log entry.
C8_EventsLoggedOnceInOrder ==
    /\ [](ChangesLogged(logs) \o repo_event_queue = Enqueued)
    /\ [][(pc = "drain" /\ repo_event_queue = <<>> /\ pc' /= "drain") =>
            (logs' = logs /\ pc' = "dashboard")]_vars

\* C8 witness: two events were put and both are logged, the second one put
\* while the first was already logged.
C8_Witness ==
    /\ Len(emitted) = 2
    /\ repo_event_queue = <<>>
    /\ Len(ChangesLogged(logs)) = 2
    /\ \E i \in 1..Len(logs) :
        /\ logs[i].event = "Repo Monitoring Started"
        /\ \E j \in 1..(i - 1) : logs[j].event = "Repo Change Detected"

\* C9: at most one observer thread of the session is alive at any time.
C9_AtMostOneWatcher == Cardinality(Alive) <= 1

\* C9 witness: the path was changed, the first observer has exited and the
\* second is the one alive.
C9_Witness ==
    /\ MaxObservers >= 2
    /\ observers[1].state = "dead"
    /\ observers[2].state = "alive"
    /\ repo_observer = 2
    /\ observers[1].path /= observers[2].path

\* C10: when stop_monitoring returns, the observer it was given is not alive,
\* and an observer that has exited puts no further event and stays exited;
\* given None or an observer that is not alive it returns at once and changes
\* nothing.
C10_StopIsSynchronous ==
    /\ [][(pc \in {"stop", "join"} /\ pc' \notin {"stop", "join"}) =>
            ~(repo_observer /= NoObserver
              /\ observers'[repo_observer].state \in {"alive", "stopping"})]_vars
    /\ [][\A o \in ObsIds :
            observers[o].state = "dead" =>
                /\ observers'[o].state = "dead"
                /\ EventsOf(o, emitted') = EventsOf(o, emitted)]_vars
    /\ [][(pc = "stop" /\ ~is_alive(repo_observer) /\ pc' /= "stop") =>
            /\ pc' = "idle"
            /\ UNCHANGED <<session, storage, widgets, user_input, repo_event_queue,
                           observers, emitted, toasts, submitted, edits, last>>]_vars

\* C10 witness: stop_monitoring has returned for an observer that had put an
\* event, while another observer is still running.
C10_Witness ==
    /\ pc = "idle"
    /\ repo_observer /= NoObserver
    /\ observers[repo_observer].state = "dead"
    /\ EventsOf(repo_observer, emitted) /= <<>>
    /\ Alive /= {}

\* ------------------------------------------------- render loop properties
\* The steps of a pass up to and including the drain loop.
BeforeDashboard == {"monitor", "stop", "join", "start", "drain"}

\* C11: a pass reaches the dashboard only from the drain step with the queue
\* observed empty, and once the watcher has stopped enqueuing, a triggered
\* pass and the re-renders it requests end with every event logged and the
\* queue empty.
C11_DrainsCompletely ==
    /\ [][(pc' = "dashboard" /\ pc /= "dashboard") =>
            (pc = "drain" /\ repo_event_queue = <<>>)]_vars
    /\ (pc \in BeforeDashboard) ~> (pc = "dashboard")
    /\ (Len(emitted) >= MaxEvents /\ pc \in BeforeDashboard) ~>
            (pc = "idle" /\ repo_event_queue = <<>> /\ ChangesLogged(logs) = Enqueued)

\* C11 witness: a pass is at the dashboard after its chain of re-renders
\* logged two events, the queue empty.
C11_Witness ==
    /\ pc = "dashboard"
    /\ repo_event_queue = <<>>
    /\ Len(ChangesLogged(logs)) >= 2
    /\ notification /= NoNotification

\* ------------------------------------------------- watcher thread frame
\* A step of an observer thread: the handling of one filesystem event.
HandlerStep == emitted' /= emitted

\* C12: handling a filesystem event appends that one event to the queue and
\* leaves tasks, logs, notification, chat history, watcher handle, monitoring
\* path and storage as they were; every other step leaves the queue alone or
\* takes from its head, so the queue is the only field both contexts write.
C12_WatcherOnlyEnqueues ==
    [][/\ HandlerStep =>
            /\ repo_event_queue' = Append(repo_event_queue, emitted'[Len(emitted')].event)
            /\ UNCHANGED <<session, storage, widgets, user_input, pc, toasts>>
       /\ ~HandlerStep =>
            \/ UNCHANGED repo_event_queue
            \/ repo_event_queue /= <<>> /\ repo_event_queue' = Tail(repo_event_queue)]_vars

\* C12 witness: an event was handled while a pass was between its drain and
\* its end; it is in the queue and the session holds no trace of it.
C12_Witness ==
    /\ Len(emitted) = 1
    /\ Len(repo_event_queue) = 1
    /\ pc \in {"dashboard", "chat"}
    /\ ChangesLogged(logs) = <<>>
    /\ notification = NoNotification

\* ------------------------------------------------- storage
\* C13: storage is the projection of the session's tasks and logs: after every
\* operation that changes tasks or appends a log entry (generate, verify,
\* watcher start, drained file event) storage.json holds exactly the current
\* tasks and logs.
C13_StorageIsProjection == storage = storage_data(tasks, logs)

\* ------------------------------------------------- task lifecycle
\* A task of the new list is the same task as before, or the same task gone
\* from pending to verified.
MovedForward(old, new) ==
    /\ new.id = old.id
    /\ new.description = old.description
    /\ new.prompt = old.prompt
    /\ new.status = old.status \/ (old.status = "pending" /\ new.status = "verified")

\* C14: tasks are never deleted and only move forward: the list grows only by
\* appending one task, an existing task keeps its id, description and prompt,
\* its status changes only from pending to verified, and only a verify step
\* changes an existing task.
C14_TasksOnlyMoveForward ==
    [][/\ Len(tasks') \in {Len(tasks), Len(tasks) + 1}
       /\ \A i \in 1..Len(tasks) :
            /\ i <= Len(tasks')
            /\ MovedForward(tasks[i], tasks'[i])
            /\ tasks'[i] /= tasks[i] => VerifyStep
       /\ Len(tasks') > Len(tasks) => GenerateStep]_vars

\* C14 witness: in one session a pending task was verified and a further task
\* appended behind it.
C14_Witness ==
    /\ submitted = 2
    /\ Len(tasks) = 2
    /\ tasks[1].status = "verified"
    /\ tasks[2].status = "pending"
    /\ last.op = "generate_ok"
    /\ \E k \in 1..Len(chat_history) : chat_history[k].text = "Great job! Task verified"

\* ------------------------------------------------- chat dispatch
\* No usable key: the sidebar holds the placeholder, or it is empty and the
\* environment variable is unset or holds the placeholder.
ConstructionFails ==
    \/ api_key = "YOUR_GEMINI_API_KEY"
    \/ api_key = "" /\ env_key \in {"", "YOUR_GEMINI_API_KEY"}

NotConfiguredMsg ==
    AssistantMsg("AI is not configured. Please enter your API key in the sidebar.",
                 NoReply, "none")

\* C15: with no backend configured the pass still reaches its chat step, and
\* a chat input there appends the user message and exactly the fixed 'AI is
\* not configured' message, calls no backend and leaves tasks, logs and
\* storage unchanged.
C15_NotConfiguredFixedMessage ==
    [][(pc = "chat" /\ user_input /= <<>> /\ ConstructionFails) =>
            /\ chat_history' = chat_history \o <<UserMsg(user_input), NotConfiguredMsg>>
            /\ last'.op = "not_configured"
            /\ last'.reply = NoReply
            /\ pc' = "idle"
            /\ UNCHANGED <<tasks, logs, storage, notification>>]_vars

\* C15 witness: the placeholder key is in the sidebar, a usable key in the
\* environment, and "what's next" over a stored pending task got the fixed
\* message.
C15_Witness ==
    /\ api_key = "YOUR_GEMINI_API_KEY"
    /\ env_key /= ""
    /\ tasks /= <<>>
    /\ pc = "idle"
    /\ last.op = "not_configured"
    /\ Len(chat_history) = 2
    /\ HasWhatsNext(chat_history[1].input)
    /\ chat_history[2] = NotConfiguredMsg

\* ------------------------------------------------- adapter
\* What a caller can hold as a string: text that is no JSON, the
\* error-description string, or JSON text.
IsText(reply) == reply.json \in {"generic_text", "error_text", "array", "object"}

\* A chat step that calls generate_response: every step of a configured
\* session on an input, but for a verification with nothing pending.
BackendCalled ==
    /\ pc = "chat"
    /\ user_input /= <<>>
    /\ gemini_client /= None
    /\ last'.op /= "verify_nothing"

\* The fixed mock strings of _get_mock_response, by the marker of the prompt
\* the step built.
MockTask == Reply("object", {"task_description", "coding_prompt"}, "absent", FALSE)

MockVerification == Reply("object", {"verified", "feedback"}, "true", FALSE)

MockGeneric == Reply("generic_text", {}, "absent", FALSE)

\* C16: generate_response always hands its caller text: in network mode a
\* failing backend call comes back as the error-description string, and in
\* mock mode the reply is the one fixed string of the prompt's marker, the
\* same at every call.
C16_AdapterAlwaysReturnsText ==
    [][BackendCalled =>
            /\ IsText(last'.reply)
            /\ gemini_client = "mock" =>
                    /\ GenerateStep => last'.reply = MockTask
                    /\ VerifyStep => last'.reply = MockVerification
                    /\ last'.op = "generic" => last'.reply = MockGeneric]_vars

\* C16 witness: in network mode two calls in a row failed, and each came back
\* to the generate handler as the error-description string.
C16_Witness ==
    /\ gemini_client = "network"
    /\ pc = "idle"
    /\ Len(chat_history) = 4
    /\ chat_history[2].reply = ErrorText
    /\ chat_history[4].reply = ErrorText
    /\ last.op = "generate_error"

\* The inputs tried, by the branch of lines 167-177 each belongs to.
GenerateInputs == {<<"What's next", "?">>, <<"Done", "what's next">>}

VerifyInputs == {<<"done">>, <<"Done", "added login form">>}

GenericInputs == {<<"hello">>}

\* C17: with a backend configured a chat input goes to exactly one handler:
\* to generate when it holds "what's next" in any case, also when it starts
\* with "done"; otherwise to verify when it starts with "done"; otherwise to
\* the generic reply, which changes neither tasks nor logs nor storage.
C17_DispatchExactlyOne ==
    [][(pc = "chat" /\ user_input /= <<>> /\ ~ConstructionFails) =>
            /\ user_input \in GenerateInputs \cup VerifyInputs \cup GenericInputs
            /\ user_input \in GenerateInputs => last'.op \in GenerateOps
            /\ user_input \in VerifyInputs => last'.op \in VerifyOps
            /\ user_input \in GenericInputs =>
                    /\ last'.op = "generic"
                    /\ UNCHANGED <<tasks, logs, storage, notification>>
            /\ Len(chat_history') \in {Len(chat_history) + 1, Len(chat_history) + 2}
            /\ chat_history'[Len(chat_history) + 1] = UserMsg(user_input)
            /\ user_input' = <<>>]_vars

\* C17 witness: "Done what's next" over a pending task went to generate,
\* which appended a second task and verified nothing.
C17_Witness ==
    /\ last.op = "generate_ok"
    /\ Len(chat_history) = 2
    /\ chat_history[1].input = <<"Done", "what's next">>
    /\ Len(tasks) = 2
    /\ tasks[1].status = "pending"

\* ------------------------------------------------- watcher handle
\* C18: whenever a pass is past its monitoring setup and the recorded
\* monitoring path equals the configured repo path, the watcher handle refers
\* to an alive observer watching that path.
C18_RecordedPathHasLiveWatcher ==
    (pc \in {"drain", "dashboard", "chat", "idle"} /\ monitoring_path = repo_path) =>
        /\ repo_observer /= NoObserver
        /\ is_alive(repo_observer)
        /\ observers[repo_observer].path = repo_path

\* ------------------------------------------------- notification
\* The notification waiting to be displayed, as a count.
Waiting == IF notification = NoNotification THEN 0 ELSE 1

\* C19: the notification is one-shot and never lost: in a session where only
\* drained file events set it, every notification set so far has been
\* displayed once by the dashboard or is the one waiting to be displayed.
C19_NotificationNeverLost == Len(ChangesLogged(logs)) = Len(toasts) + Waiting

\* ------------------------------------------------- chat input
\* The user messages recorded in the chat history.
UserMessages == SelectSeq(chat_history, LAMBDA m : m.author = "user")

\* C20: every chat input submitted is recorded in the chat history and
\* dispatched exactly once: when the session is idle again, the history holds
\* one user message per submission.
C20_EveryInputDispatched == pc = "idle" => Len(UserMessages) = submitted

====
